---- MODULE Spec2Model ----
(***************************************************************************)
(* Model of the Home component of frontend/src/app/page.tsx: the username  *)
(* form, its validator, the debounce and rotation effects, and the         *)
(* handleSubmit handler with its two fetches (/insights and /analyze).     *)
(*                                                                         *)
(* Strings that the code inspects character by character (the username)    *)
(* are sequences of one-character strings.  Messages that the code only    *)
(* stores and shows are TLA+ strings.  The state variables are the state   *)
(* React has committed; the setState calls a handler makes between two     *)
(* suspension points are committed together, and the effects whose         *)
(* dependencies changed run with that commit.                              *)
(***************************************************************************)
EXTENDS Integers, Sequences, FiniteSets, TLC

VARIABLES
    mounted,             \* the component is mounted
    username,            \* useState("")            page.tsx:143
    debouncedUsername,   \* useState("")            page.tsx:144
    loading,             \* useState(false)         page.tsx:145
    results,             \* useState(null)          page.tsx:146
    error,               \* useState("")            page.tsx:147
    inputError,          \* useState("")            page.tsx:148
    insights,            \* useState([])            page.tsx:149
    currentInsightIndex, \* useState(0)             page.tsx:150
    debounceTimers,      \* pending setTimeout timers of the debounce effect
    rotationTimers,      \* pending setInterval timers of the rotation effect
    pc,                  \* position of the running handleSubmit call
    analyzePromise,      \* state of analyzePromise of the running call
    inflight,            \* requests sent whose response has not arrived
    sent,                \* every request issued so far, in order
    arrived,             \* what the fetches of the latest submission have
                         \* settled with, in order of arrival
    submissions          \* number of accepted submissions so far

vars == <<mounted, username, debouncedUsername, loading, results, error,
          inputError, insights, currentInsightIndex, debounceTimers,
          rotationTimers, pc, analyzePromise, inflight, sent, arrived,
          submissions>>

(***************************************************************************)
(* Bounds                                                                  *)
(***************************************************************************)
\* longest insights array a response carries
MaxInsights == 2
\* accepted submissions explored
MaxSubmissions == 2
\* longest text enumerated character by character for the validator
MaxShortLen == 2

(***************************************************************************)
(* Characters and strings                                                  *)
(***************************************************************************)
Lower == {"a","b","c","d","e","f","g","h","i","j","k","l","m",
          "n","o","p","q","r","s","t","u","v","w","x","y","z"}
Upper == {"A","B","C","D","E","F","G","H","I","J","K","L","M",
          "N","O","P","Q","R","S","T","U","V","W","X","Y","Z"}
Digit == {"0","1","2","3","4","5","6","7","8","9"}
\* the character class [a-zA-Z0-9_] of the regular expression
WordChar == Lower \cup Upper \cup Digit \cup {"_"}
\* characters String.prototype.trim removes
WhiteSpace == {" ", "\t", "\n"}

RECURSIVE TrimStart(_)
TrimStart(s) ==
    IF s # <<>> /\ Head(s) \in WhiteSpace THEN TrimStart(Tail(s)) ELSE s

RECURSIVE TrimEnd(_)
TrimEnd(s) ==
    IF s # <<>> /\ s[Len(s)] \in WhiteSpace
    THEN TrimEnd(SubSeq(s, 1, Len(s) - 1)) ELSE s

\* value.trim()
Trim(s) == TrimEnd(TrimStart(s))

\* /^[a-zA-Z0-9_]+$/.test(value)
MatchesWord(s) == Len(s) >= 1 /\ \A i \in 1..Len(s) : s[i] \in WordChar

ErrRequired == "Username is required"
ErrLength == "Username must be 1-15 characters"
ErrCharset == "Username can only contain letters, numbers, and underscores"

MaxUsernameLen == 15

\* validateUsername without its character-class rule
validateUsername_NoCharset(value) ==
    IF Trim(value) = <<>> THEN ErrRequired
    ELSE IF Len(value) < 1 \/ Len(value) > MaxUsernameLen THEN ErrLength
    ELSE ""

\* validateUsername with its length limit one character too far
validateUsername_Max16(value) ==
    IF Trim(value) = <<>> THEN ErrRequired
    ELSE IF Len(value) < 1 \/ Len(value) > MaxUsernameLen + 1 THEN ErrLength
    ELSE IF ~MatchesWord(value) THEN ErrCharset
    ELSE ""

\* validateUsername testing the character class before the length
validateUsername_CharsetFirst(value) ==
    IF Trim(value) = <<>> THEN ErrRequired
    ELSE IF ~MatchesWord(value) THEN ErrCharset
    ELSE IF Len(value) < 1 \/ Len(value) > MaxUsernameLen THEN ErrLength
    ELSE ""

validateUsername(value) ==
    IF Trim(value) = <<>> THEN ErrRequired
    ELSE IF Len(value) < 1 \/ Len(value) > MaxUsernameLen THEN ErrLength
    ELSE IF ~MatchesWord(value) THEN ErrCharset
    ELSE ""

\* the texts a change event of the input field can carry
Sixteen == [i \in 1..16 |-> "x"]
Inputs == { <<>>, <<" ">>, <<"a", "b">>, <<"a", " ", "b">>,
            <<"e","l","o","n","m","u","s","k">>, Sixteen }

\* The texts given to the validator alone: every text of up to MaxShortLen
\* characters over a letter of each class, two white-space characters and a
\* forbidden character, and texts around the length limit made of a filler
\* with one such character (or none) at the front or at the back.
ValidatorChars == {"a", "Z", "7", "_", " ", "\t", "-"}
ShortInputs(n) == UNION {[1..k -> ValidatorChars] : k \in 0..n}
Filled(n, c) == [i \in 1..n |-> c]
LongInputs ==
    UNION {{p \o Filled(n - Len(p), c), Filled(n - Len(p), c) \o p} :
           <<p, n, c>> \in ShortInputs(1)
                           \X ((MaxUsernameLen - 1)..(MaxUsernameLen + 2))
                           \X {"x", " "}}
ValidatorInputs == ShortInputs(MaxShortLen) \cup LongInputs

(***************************************************************************)
(* JavaScript values.  A value is a record tagged by its type t; arrays    *)
(* and strings carry their elements in items.                              *)
(***************************************************************************)
Undefined == [t |-> "undefined"]
JNull == [t |-> "null"]
Arr(s) == [t |-> "array", items |-> s]
Str(s) == [t |-> "string", items |-> s]
Obj(ins) == [t |-> "object", insights |-> ins]
\* numbers carry their value in thousandths: Lit(49, 900) is 49.9
Num(n) == [t |-> "number", v |-> n]
Lit(i, m) == Num(i * 1000 + m)
\* a * b
Times(a, b) == Num((a.v * b.v) \div 1000)
\* a + b
Plus(a, b) == Num(a.v + b.v)
Bool(b) == [t |-> "boolean", v |-> b]

\* interface OpposingViewpoints
OpposingViewpoints(inc, topics, expl) ==
    [t |-> "object", included |-> Bool(inc),
     topics_with_diversity |-> Arr(topics), explanation |-> Str(expl)]

\* interface TopicWithWeight
TopicWithWeight(w) == [t |-> "object", topic |-> Str(<<"t">>), weight |-> w]

Low == <<"L", "o", "w">>
Moderate == <<"M", "o", "d", "e", "r", "a", "t", "e">>
High == <<"H", "i", "g", "h">>

\* interface DiversityMetrics
DiversityMetricsOf(score, risk) ==
    [t |-> "object", diversity_score |-> score, topic_entropy |-> Lit(1, 0),
     filter_bubble_risk |-> risk, viewpoint_diversity |-> Str(<<"v">>)]
DiversityMetrics == DiversityMetricsOf(Lit(60, 0), Str(Low))

\* interface TemporalAnalysis
TemporalAnalysis ==
    [t |-> "object", recency_bias |-> Str(<<"r">>),
     temporal_mix_explanation |-> Str(<<"m">>),
     content_freshness |-> Str(<<"f">>)]

\* interface RecommendationExplanation
RecommendationExplanation ==
    [t |-> "object", signal_name |-> Str(<<"s">>),
     why_this_recommendation |-> Str(<<"w">>),
     expected_impact |-> Str(<<"i">>)]

\* interface AlgorithmReport, with the four groups added last as given
AlgorithmReport(dm, ov, ta, re) ==
    [t |-> "object",
     analysis_process |-> Str(<<"p">>),
     signals_boosted |-> Arr(<<>>),
     signals_reduced |-> Arr(<<>>),
     feed_composition |->
         [t |-> "object", increase |-> Arr(<<>>), decrease |-> Arr(<<>>),
          account_distribution |-> Str(<<"d">>)],
     quality_metrics |->
         [t |-> "object", prioritized_signals |-> Arr(<<>>),
          spam_filters |-> Arr(<<>>), diversity_mechanisms |-> Arr(<<>>)],
     diversity_metrics |-> dm,
     opposing_viewpoints |-> ov,
     temporal_analysis |-> ta,
     recommendation_explanations |-> re,
     expected_outcome |-> Str(<<"o">>)]

\* interface AnalyzeResponse; id tells two responses apart
AnalyzeResponseOf(n, topics, rep) ==
    [t |-> "report", id |-> n,
     topics |-> Arr(topics),
     recommendations |->
         [t |-> "object", report |-> rep,
          tokens |-> [t |-> "object", completion_tokens |-> Lit(1, 0),
                      reasoning_tokens |-> Lit(1, 0),
                      total_tokens |-> Lit(2, 0)]]]
AnalyzeResponse(n, rep) == AnalyzeResponseOf(n, <<>>, rep)

\* a fully populated response
Report(n) ==
    AnalyzeResponse(n, AlgorithmReport(DiversityMetrics,
                                       OpposingViewpoints(TRUE, <<>>, <<>>),
                                       TemporalAnalysis, Arr(<<>>)))
\* a body that is not JSON
NotJson == [t |-> "text"]

\* v.length; -1 stands for undefined (no value of the model lacks a length
\* where the code reads one)
Length(v) == IF v.t \in {"array", "string"} THEN Len(v.items) ELSE -1

\* the truthiness the code tests with ||, && and !
Truthy(v) ==
    CASE v.t \in {"undefined", "null"} -> FALSE
      [] v.t = "string" -> v.items # <<>>
      [] v.t = "boolean" -> v.v
      [] OTHER -> TRUE

\* errors thrown and caught
Err(m) == [isError |-> TRUE, message |-> m]
TypeErrorNull == Err("Cannot read properties of null (reading 'insights')")
SyntaxErrorJson == Err("Unexpected token in JSON")
FetchError == Err("Failed to fetch")

FallbackInsights == Arr(<<"Analyzing your profile...">>)

(***************************************************************************)
(* The rendering of results.  Throw is the TypeError of reading a property *)
(* of undefined or null, or of calling what is not a function; it goes     *)
(* through every later read of the same expression.                        *)
(***************************************************************************)
Throw == [t |-> "throw"]

\* o.f
Prop(o, f) ==
    IF o.t \in {"throw", "undefined", "null"} THEN Throw
    ELSE IF f \in DOMAIN o THEN o[f]
    ELSE Undefined

\* v.map(...)
Map(v) == IF v.t = "array" THEN v ELSE Throw

\* v.toFixed(0)
ToFixed(v) == IF v.t = "number" THEN v ELSE Throw

\* v.length > 0
NonEmpty(v) ==
    IF v.t \in {"throw", "undefined", "null"} THEN Throw
    ELSE Bool(Length(v) > 0)

\* {v} as the child of an element: an object is not a valid child
Child(v) == IF v.t \in {"throw", "object", "report"} THEN Throw ELSE v

\* the opposing-viewpoints section shown when it has topics
OpposingShown_ByTopics(ov) == NonEmpty(Prop(ov, "topics_with_diversity"))

\* report.opposing_viewpoints.included &&
OpposingShown(ov) == Prop(ov, "included")

Always == Bool(TRUE)

\* The blocks of {results && (...)} in the order of the markup: the
\* condition under which each is rendered and the values it reads.
Blocks(res) ==
    LET rec == Prop(res, "recommendations")
        tok == Prop(rec, "tokens")
        rep == Prop(rec, "report")
        fc == Prop(rep, "feed_composition")
        qm == Prop(rep, "quality_metrics")
        dm == Prop(rep, "diversity_metrics")
        ov == Prop(rep, "opposing_viewpoints")
        ta == Prop(rep, "temporal_analysis")
        re == Prop(rep, "recommendation_explanations")
    IN  << [name |-> "Your Interests", kind |-> "card", cond |-> Always,
            reads |-> <<Map(Prop(res, "topics"))>>],
           [name |-> "Algorithm Adjustment Report", kind |-> "card",
            cond |-> Always,
            reads |-> <<Child(Prop(tok, "reasoning_tokens")),
                        Child(Prop(tok, "completion_tokens"))>>],
           [name |-> "Analysis Process", kind |-> "section", cond |-> Always,
            reads |-> <<Child(Prop(rep, "analysis_process"))>>],
           [name |-> "Signals Being Boosted", kind |-> "section",
            cond |-> Always,
            reads |-> <<Map(Prop(rep, "signals_boosted"))>>],
           [name |-> "Signals Being Reduced", kind |-> "section",
            cond |-> Always,
            reads |-> <<Map(Prop(rep, "signals_reduced"))>>],
           [name |-> "Feed Composition Changes", kind |-> "section",
            cond |-> Always,
            reads |-> <<Map(Prop(fc, "increase")), Map(Prop(fc, "decrease")),
                        Child(Prop(fc, "account_distribution"))>>],
           [name |-> "Quality Metrics Applied", kind |-> "section",
            cond |-> Always,
            reads |-> <<Map(Prop(qm, "prioritized_signals")),
                        Map(Prop(qm, "spam_filters")),
                        Map(Prop(qm, "diversity_mechanisms"))>>],
           [name |-> "Feed Diversity Assessment", kind |-> "section",
            cond |-> Always,
            reads |-> <<ToFixed(Prop(dm, "diversity_score")),
                        Child(Prop(dm, "filter_bubble_risk")),
                        Prop(dm, "topic_entropy"),
                        Child(Prop(dm, "viewpoint_diversity"))>>],
           [name |-> "Opposing Viewpoints Strategy", kind |-> "section",
            cond |-> OpposingShown(ov),
            reads |-> <<Map(Prop(ov, "topics_with_diversity")),
                        Child(Prop(ov, "explanation"))>>],
           [name |-> "Temporal Content Mix", kind |-> "section",
            cond |-> Always,
            reads |-> <<Child(Prop(ta, "recency_bias")),
                        Child(Prop(ta, "content_freshness")),
                        Child(Prop(ta, "temporal_mix_explanation"))>>],
           [name |-> "Why These Recommendations?", kind |-> "section",
            cond |-> NonEmpty(re),
            reads |-> <<Map(re)>>],
           [name |-> "Expected Outcome", kind |-> "section", cond |-> Always,
            reads |-> <<Child(Prop(rep, "expected_outcome"))>> ] >>

\* a block throws when its condition does, or when it is rendered and one
\* of its reads does
BlockThrows(b) ==
    \/ b.cond.t = "throw"
    \/ Truthy(b.cond) /\ \E i \in 1..Len(b.reads) : b.reads[i].t = "throw"

\* the progress bar green from 70 on
ScoreColor_AtLeast(score) ==
    IF score.v >= 70000 THEN "bg-green-500"
    ELSE IF score.v > 50000 THEN "bg-yellow-500"
    ELSE "bg-red-500"

\* colorClass of the progress bar: score > 70 ? ... : score > 50 ? ... : ...
ScoreColor(score) ==
    IF score.v > 70000 THEN "bg-green-500"
    ELSE IF score.v > 50000 THEN "bg-yellow-500"
    ELSE "bg-red-500"

\* the risk badge red for 'High' only
RiskColor_HighOnly(risk) ==
    IF risk.t = "string" /\ risk.items = Low THEN "bg-green-600"
    ELSE IF risk.t = "string" /\ risk.items = High THEN "bg-red-600"
    ELSE "bg-yellow-600"

\* className of the risk badge: risk === 'Low' ? ... : risk === 'Moderate'
\* ? ... : ...
RiskColor(risk) ==
    IF risk.t = "string" /\ risk.items = Low THEN "bg-green-600"
    ELSE IF risk.t = "string" /\ risk.items = Moderate THEN "bg-yellow-600"
    ELSE "bg-red-600"

\* the badge opacity with the weight's factor for the base
BadgeOpacity_Swapped(weight) == Plus(Lit(0, 600), Times(weight, Lit(0, 400)))

\* --badge-opacity of WeightedBadge: 0.4 + (weight * 0.6), for a number
BadgeOpacity(weight) == Plus(Lit(0, 400), Times(weight, Lit(0, 600)))

\* What Home renders for results: nothing while results is null, else the
\* report sections shown with the colors of the score bar and of the risk
\* badge and the opacities of the topic badges, unless an expression of the
\* markup throws.
Render(res) ==
    IF ~Truthy(res) THEN [t |-> "rendered", sections |-> {}]
    ELSE LET bs == Blocks(res)
             dm == res.recommendations.report.diversity_metrics
         IN  IF \E i \in 1..Len(bs) : BlockThrows(bs[i]) THEN Throw
             ELSE [t |-> "rendered",
                   sections |-> {bs[i].name : i \in
                       {j \in 1..Len(bs) : /\ bs[j].kind = "section"
                                           /\ Truthy(bs[j].cond)}},
                   score |-> ScoreColor(dm.diversity_score),
                   risk |-> RiskColor(dm.filter_bubble_risk),
                   badges |-> [i \in 1..Len(res.topics.items) |->
                       BadgeOpacity(res.topics.items[i].weight)]]

(***************************************************************************)
(* What the two fetches can settle with                                    *)
(***************************************************************************)
Rejected(e) == [kind |-> "reject", err |-> e]
Response(s, b) == [kind |-> "response", status |-> s, body |-> b]

InsightTexts == <<"insight 1", "insight 2", "insight 3", "insight 4">>

\* the JSON bodies an /insights response can carry
InsightsBodies ==
    {NotJson, JNull, [t |-> "number"], Obj(Undefined), Obj(Str(<<"h", "i">>))}
    \cup {Obj(Arr(SubSeq(InsightTexts, 1, n))) : n \in 0..MaxInsights}

\* the status of an /insights response is never read (page.tsx:212)
InsightsOutcomes ==
    {Rejected(FetchError)} \cup {Response(200, b) : b \in InsightsBodies}

Statuses == {200, 404, 500}

AnalyzeBodies == {NotJson, JNull, Report(1), Report(2)}

AnalyzeOutcomes ==
    {Rejected(FetchError)}
    \cup {Response(200, b) : b \in AnalyzeBodies}
    \cup {Response(s, NotJson) : s \in Statuses \ {200}}

\* The /analyze bodies told apart by the rendering: the fully populated
\* reports, and the reports without one of the four groups added last, or
\* without all four as in the older format.
FullReports ==
    {AlgorithmReport(DiversityMetrics, OpposingViewpoints(inc, topics, expl),
                     TemporalAnalysis, Arr(re)) :
         <<inc, topics, expl, re>> \in
             BOOLEAN \X {<<>>, <<"topic">>} \X {<<>>, <<"e">>}
                     \X {<<>>, <<RecommendationExplanation>>}}
PartialReports ==
    LET ov == OpposingViewpoints(TRUE, <<"topic">>, <<"e">>)
        re == Arr(<<RecommendationExplanation>>)
    IN  {AlgorithmReport(Undefined, ov, TemporalAnalysis, re),
         AlgorithmReport(DiversityMetrics, Undefined, TemporalAnalysis, re),
         AlgorithmReport(DiversityMetrics, ov, Undefined, re),
         AlgorithmReport(DiversityMetrics, ov, TemporalAnalysis, Undefined),
         AlgorithmReport(Undefined, Undefined, Undefined, Undefined)}
\* the scores, risk labels and topic weights the presentation tells apart
Scores ==
    {Lit(0 - 5, 0), Lit(0, 0), Lit(49, 900), Lit(50, 0), Lit(50, 1),
     Lit(60, 0), Lit(70, 0), Lit(70, 1), Lit(71, 0), Lit(100, 0), Lit(250, 0)}
RiskLabels ==
    {Str(Low), Str(Moderate), Str(High), Str(<<"l", "o", "w">>),
     Str(<<"L", "o", "w", " ">>), Str(<<"S", "e", "v", "e", "r", "e">>),
     Str(<<>>)}
Weights == {Lit(0, 50 * k) : k \in 0..20}
TopicLists ==
    {<<TopicWithWeight(w), TopicWithWeight(Lit(0, 1000 - w.v))>> : w \in Weights}
PresentationBodies ==
    LET full(dm) == AlgorithmReport(dm, OpposingViewpoints(TRUE, <<>>, <<>>),
                                    TemporalAnalysis, Arr(<<>>))
    IN  {AnalyzeResponse(1, full(DiversityMetricsOf(score, Str(Low)))) :
             score \in Scores}
        \cup {AnalyzeResponse(1, full(DiversityMetricsOf(Lit(60, 0), risk))) :
                 risk \in RiskLabels}
        \cup {AnalyzeResponseOf(1, topics, full(DiversityMetrics)) :
                 topics \in TopicLists}
RenderBodies ==
    {AnalyzeResponse(1, rep) : rep \in FullReports \cup PartialReports}
    \cup PresentationBodies
RenderOutcomes == {Response(200, b) : b \in RenderBodies}
RenderInsightsOutcomes == {Response(200, Obj(Arr(SubSeq(InsightTexts, 1, 1))))}
RenderInputs == {<<"a", "b">>}

\* response.ok
Ok(status) == status >= 200 /\ status <= 299

\* res.json(): the parsed value, or a SyntaxError
Json(body) ==
    IF body.t = "text" THEN [throws |-> TRUE, err |-> SyntaxErrorJson]
    ELSE [throws |-> FALSE, value |-> body]

\* what insightsPromise resolves with: fetch(...).then(res => res.json())
\* .catch(() => ({ insights: ["Analyzing your profile..."] }))
InsightsData(outcome) ==
    IF outcome.kind = "reject" THEN Obj(FallbackInsights)
    ELSE IF Json(outcome.body).throws THEN Obj(FallbackInsights)
    ELSE Json(outcome.body).value

(***************************************************************************)
(* Effects                                                                 *)
(***************************************************************************)
\* the debounce effect without its cleanup: no timer is ever cleared
DebounceEffect_NoCleanup(timers, oldName, newName) ==
    IF oldName = newName THEN timers ELSE Append(timers, newName)

\* The debounce effect (dependencies [username]): when username changed,
\* the cleanup of the previous run clears its timer, if still pending, and
\* the new run sets a timer that captures the new username.
DebounceEffect(timers, oldName, newName) ==
    IF oldName = newName THEN timers
    ELSE LET cleared == IF timers # <<>> THEN Tail(timers) ELSE timers
         IN  Append(cleared, newName)

\* The rotation effect (dependencies [loading, insights.length]): when a
\* dependency changed, the cleanup of the previous run (present when that
\* run set an interval) clears it, and the new run sets an interval, which
\* captures insights.length, unless !loading || insights.length === 0.
\* the rotation effect without the cleanup that clears its interval
RotationEffect_NoCleanup(timers, oldL, oldIns, newL, newIns) ==
    IF oldL = newL /\ Length(oldIns) = Length(newIns)
    THEN timers
    ELSE IF ~newL \/ Length(newIns) = 0 THEN timers
         ELSE Append(timers, Length(newIns))

RotationEffect(timers, oldLoading, oldInsights, newLoading, newInsights) ==
    IF oldLoading = newLoading /\ Length(oldInsights) = Length(newInsights)
    THEN timers
    ELSE LET cleared == IF oldLoading /\ Length(oldInsights) # 0
                        THEN Tail(timers) ELSE timers
         IN  IF ~newLoading \/ Length(newInsights) = 0 THEN cleared
             ELSE Append(cleared, Length(newInsights))

\* the callback of the interval: (prev) => (prev + 1) % insights.length
\* the callback without the modulo
NextIndex_NoWrap(prev, len) == prev + 1

NextIndex(prev, len) == (prev + 1) % len

(***************************************************************************)
(* handleSubmit, from one suspension point to the next.  st holds the      *)
(* values of loading, results, error and insights the call has set so far. *)
(***************************************************************************)
NoPromise == [state |-> "none"]
Pending == [state |-> "pending"]
Settled(outcome) == [state |-> "settled", outcome |-> outcome]

CurrentState ==
    [loading |-> loading, results |-> results, error |-> error,
     insights |-> insights]

\* err instanceof Error ? err.message : "An error occurred"
ErrorMessage(err) == IF err.isError THEN err.message ELSE "An error occurred"

\* new Error(`Error: ${response.status}`)
StatusError(status) == Err("Error: " \o ToString(status))

\* the resets without setError("")
SubmitReset_KeepError(st) ==
    [st EXCEPT !.loading = TRUE, !.results = JNull, !.insights = Arr(<<>>)]

\* setLoading(true); setError(""); setResults(null); setInsights([]);
SubmitReset(st) ==
    [st EXCEPT !.loading = TRUE, !.error = "", !.results = JNull,
               !.insights = Arr(<<>>)]

\* the catch block without its setError
Caught_NoMessage(st, err) == [st EXCEPT !.loading = FALSE]

\* catch (err) { setError(...) } finally { setLoading(false) }
Caught(st, err) ==
    [st EXCEPT !.error = ErrorMessage(err), !.loading = FALSE]

\* const response = await analyzePromise; if (!response.ok) throw ...;
\* then the call to response.json(), which is awaited
OnAnalyzeSettled(st, outcome) ==
    IF outcome.kind = "reject"
    THEN [st |-> Caught(st, outcome.err), pc |-> "idle"]
    ELSE IF ~Ok(outcome.status)
    THEN [st |-> Caught(st, StatusError(outcome.status)), pc |-> "idle"]
    ELSE [st |-> st, pc |-> "awaitJson"]

\* setInsights(insightsData.insights || ["Analyzing your profile..."]);
\* reading a property of null throws a TypeError
SetInsights(st, data) ==
    LET field == IF data.t = "object" THEN data.insights ELSE Undefined
    IN  [st EXCEPT !.insights = IF Truthy(field) THEN field
                                ELSE FallbackInsights]

\* const insightsData = await insightsPromise; setInsights(...); then the
\* await of analyzePromise, which goes on at once when that promise has
\* settled already
\* the two promises raced: when /analyze has settled first, the call ends
\* at the settling of /insights without reading the /analyze response
OnInsightsSettled_Raced(st, data, promise) ==
    IF data.t = "null"
    THEN [st |-> Caught(st, TypeErrorNull), pc |-> "idle"]
    ELSE IF promise.state = "settled"
    THEN [st |-> [SetInsights(st, data) EXCEPT !.loading = FALSE],
          pc |-> "idle"]
    ELSE [st |-> SetInsights(st, data), pc |-> "awaitAnalyze"]

OnInsightsSettled(st, data, promise) ==
    IF data.t = "null"
    THEN [st |-> Caught(st, TypeErrorNull), pc |-> "idle"]
    ELSE IF promise.state = "settled"
    THEN OnAnalyzeSettled(SetInsights(st, data), promise.outcome)
    ELSE [st |-> SetInsights(st, data), pc |-> "awaitAnalyze"]

\* const data = await response.json(); setResults(data); finally
OnJsonSettled(st, body) ==
    IF Json(body).throws THEN Caught(st, Json(body).err)
    ELSE [st EXCEPT !.results = Json(body).value, !.loading = FALSE]

\* the requests the try block issues before its first await
Request(ep, name, sub) == [ep |-> ep, username |-> name, sub |-> sub]

\* a settled fetch, as the history arrived records it
Arrival(ep, outcome) == [ep |-> ep, outcome |-> outcome]

\* the try block answering from what was sent before for the same username
IssueRequests_Cached(name, sub) ==
    IF \E i \in 1..Len(sent) : sent[i].username = name THEN <<>>
    ELSE <<Request("insights", name, sub), Request("analyze", name, sub)>>

\* the try block issuing /analyze only after the await of insightsPromise
IssueRequests_Sequential(name, sub) == <<Request("insights", name, sub)>>

IssueRequests(name, sub) ==
    <<Request("insights", name, sub), Request("analyze", name, sub)>>

\* every /analyze response taken for that of the running call, as with one
\* promise shared by all calls
OwnRequest_Any(r) == TRUE

\* the fetch r was started by the latest handleSubmit call: each call holds
\* its own promises in its closure, and no later call reads them
OwnRequest(r) == r.sub = submissions

\* the button's disabled expression without its inputError operand
SubmitDisabled_NoInputError == loading \/ Trim(debouncedUsername) = <<>>

\* disabled={loading || !debouncedUsername.trim() || !!inputError}
SubmitDisabled == loading \/ Trim(debouncedUsername) = <<>> \/ inputError # ""

(***************************************************************************)
(* The state machine                                                       *)
(***************************************************************************)
Init ==
    /\ mounted = TRUE
    /\ username = <<>>
    /\ debouncedUsername = <<>>
    /\ loading = FALSE
    /\ results = JNull
    /\ error = ""
    /\ inputError = ""
    /\ insights = Arr(<<>>)
    /\ currentInsightIndex = 0
    \* the first run of the debounce effect has set its timer; that of the
    \* rotation effect has returned at !loading
    /\ debounceTimers = <<username>>
    /\ rotationTimers = <<>>
    /\ pc = "idle"
    /\ analyzePromise = NoPromise
    /\ inflight = {}
    /\ sent = <<>>
    /\ arrived = <<>>
    /\ submissions = 0

\* One commit of what a handleSubmit call has set, with the rotation effect.
\* After the unmount the setters change nothing.
Commit(st) ==
    IF mounted
    THEN /\ loading' = st.loading
         /\ results' = st.results
         /\ error' = st.error
         /\ insights' = st.insights
         /\ rotationTimers' = RotationEffect(rotationTimers, loading, insights,
                                             st.loading, st.insights)
    ELSE UNCHANGED <<loading, results, error, insights, rotationTimers>>

\* onChange also dismissing the error panel
handleUsernameChange_ClearsError(value) ==
    /\ mounted /\ ~loading
    /\ value # username
    /\ username' = value
    /\ inputError' = validateUsername(value)
    /\ error' = ""
    /\ debounceTimers' = DebounceEffect(debounceTimers, username, value)
    /\ UNCHANGED <<mounted, debouncedUsername, loading, results,
                   insights, currentInsightIndex, rotationTimers, pc,
                   analyzePromise, inflight, sent, arrived, submissions>>

\* onChange of the input field, which is disabled while loading; React
\* fires it when the value of the field has changed
handleUsernameChange(value) ==
    /\ mounted /\ ~loading
    /\ value # username
    /\ username' = value
    /\ inputError' = validateUsername(value)
    /\ debounceTimers' = DebounceEffect(debounceTimers, username, value)
    /\ UNCHANGED <<mounted, debouncedUsername, loading, results, error,
                   insights, currentInsightIndex, rotationTimers, pc,
                   analyzePromise, inflight, sent, arrived, submissions>>

\* a debounce timer fires: setDebouncedUsername(username), with the username
\* of the render that set the timer
DebounceFire ==
    /\ debounceTimers # <<>>
    /\ \E i \in 1..Len(debounceTimers) :
        /\ debouncedUsername' = debounceTimers[i]
        /\ debounceTimers' = SubSeq(debounceTimers, 1, i - 1)
                             \o SubSeq(debounceTimers, i + 1, Len(debounceTimers))
    /\ UNCHANGED <<mounted, username, loading, results, error, inputError,
                   insights, currentInsightIndex, rotationTimers, pc,
                   analyzePromise, inflight, sent, arrived, submissions>>

\* a rotation interval ticks
RotationTick ==
    /\ rotationTimers # <<>>
    /\ \E i \in 1..Len(rotationTimers) :
        currentInsightIndex' = NextIndex(currentInsightIndex, rotationTimers[i])
    /\ UNCHANGED <<mounted, username, debouncedUsername, loading, results,
                   error, inputError, insights, debounceTimers, rotationTimers,
                   pc, analyzePromise, inflight, sent, arrived, submissions>>

\* handleSubmit clearing the error panel and the report before it validates
handleSubmit_ResetFirst ==
    /\ mounted /\ ~SubmitDisabled
    /\ LET validationError == validateUsername(debouncedUsername)
           trimmedUsername == Trim(debouncedUsername)
           issued == IssueRequests(trimmedUsername, submissions + 1)
       IN  IF validationError # ""
           THEN /\ inputError' = validationError
                /\ Commit([CurrentState EXCEPT !.error = "",
                                               !.results = JNull])
                /\ UNCHANGED <<currentInsightIndex, pc, analyzePromise,
                               inflight, sent, arrived, submissions>>
           ELSE /\ submissions < MaxSubmissions
                /\ Commit(SubmitReset(CurrentState))
                /\ currentInsightIndex' = 0
                /\ sent' = sent \o issued
                /\ arrived' = <<>>
                /\ inflight' = inflight \cup {issued[i] : i \in 1..Len(issued)}
                /\ pc' = "awaitInsights"
                /\ analyzePromise' = Pending
                /\ submissions' = submissions + 1
                /\ UNCHANGED inputError
    /\ UNCHANGED <<mounted, username, debouncedUsername, debounceTimers>>

\* onSubmit of the form, which the submit button starts unless disabled:
\* handleSubmit up to its first await
handleSubmit ==
    /\ mounted /\ ~SubmitDisabled
    /\ LET validationError == validateUsername(debouncedUsername)
           trimmedUsername == Trim(debouncedUsername)
           issued == IssueRequests(trimmedUsername, submissions + 1)
       IN  IF validationError # ""
           THEN /\ inputError' = validationError
                /\ UNCHANGED <<loading, results, error, insights,
                               currentInsightIndex, rotationTimers, pc,
                               analyzePromise, inflight, sent, arrived,
                               submissions>>
           ELSE /\ submissions < MaxSubmissions
                /\ Commit(SubmitReset(CurrentState))
                /\ currentInsightIndex' = 0
                /\ sent' = sent \o issued
                /\ arrived' = <<>>
                /\ inflight' = inflight \cup {issued[i] : i \in 1..Len(issued)}
                /\ pc' = "awaitInsights"
                /\ analyzePromise' = Pending
                /\ submissions' = submissions + 1
                /\ UNCHANGED inputError
    /\ UNCHANGED <<mounted, username, debouncedUsername, debounceTimers>>

\* the /insights fetch of the running call settles, and the call goes on
InsightsSettles(r, outcome) ==
    /\ r \in inflight /\ r.ep = "insights"
    /\ pc = "awaitInsights"
    /\ LET next == OnInsightsSettled(CurrentState, InsightsData(outcome),
                                     analyzePromise)
       IN  /\ Commit(next.st)
           /\ pc' = next.pc
           /\ analyzePromise' = IF next.pc = "idle" THEN NoPromise
                                ELSE analyzePromise
    /\ inflight' = inflight \ {r}
    /\ arrived' = Append(arrived, Arrival(r.ep, outcome))
    /\ UNCHANGED <<mounted, username, debouncedUsername, inputError,
                   currentInsightIndex, debounceTimers, sent, submissions>>

\* an /analyze fetch settles: that of the running call is recorded in its
\* promise, and the call goes on when it awaits the promise; the response to
\* a call that has ended is dropped
AnalyzeSettles(r, outcome) ==
    /\ r \in inflight /\ r.ep = "analyze"
    /\ inflight' = inflight \ {r}
    /\ arrived' = IF OwnRequest(r)
                  THEN Append(arrived, Arrival(r.ep, outcome)) ELSE arrived
    /\ IF OwnRequest(r) /\ pc = "awaitAnalyze"
       THEN LET next == OnAnalyzeSettled(CurrentState, outcome)
            IN  /\ Commit(next.st)
                /\ pc' = next.pc
                /\ analyzePromise' = IF next.pc = "idle" THEN NoPromise
                                     ELSE Settled(outcome)
       ELSE IF OwnRequest(r) /\ pc = "awaitInsights"
       THEN /\ analyzePromise' = Settled(outcome)
            /\ UNCHANGED <<loading, results, error, insights, rotationTimers,
                           pc>>
       ELSE UNCHANGED <<loading, results, error, insights, rotationTimers,
                        pc, analyzePromise>>
    /\ UNCHANGED <<mounted, username, debouncedUsername, inputError,
                   currentInsightIndex, debounceTimers, sent, submissions>>

\* response.json() settles, and the call ends.  No error boundary is around
\* Home: when the render of the new results throws, React unmounts the tree.
JsonSettles ==
    /\ pc = "awaitJson"
    /\ LET st == OnJsonSettled(CurrentState, analyzePromise.outcome.body)
       IN  /\ Commit(st)
           /\ IF mounted /\ Render(st.results).t = "throw"
              THEN mounted' = FALSE /\ debounceTimers' = <<>>
              ELSE UNCHANGED <<mounted, debounceTimers>>
    /\ pc' = "idle"
    /\ analyzePromise' = NoPromise
    /\ UNCHANGED <<username, debouncedUsername, inputError,
                   currentInsightIndex, inflight, sent, arrived, submissions>>

\* the component unmounts: the cleanups of both effects run
Unmount ==
    /\ mounted
    /\ mounted' = FALSE
    /\ debounceTimers' = <<>>
    /\ rotationTimers' = IF loading /\ Length(insights) # 0
                         THEN Tail(rotationTimers) ELSE rotationTimers
    /\ UNCHANGED <<username, debouncedUsername, loading, results, error,
                   inputError, insights, currentInsightIndex, pc,
                   analyzePromise, inflight, sent, arrived, submissions>>

Next ==
    \/ \E value \in Inputs : handleUsernameChange(value)
    \/ DebounceFire
    \/ RotationTick
    \/ handleSubmit
    \/ \E r \in inflight, outcome \in InsightsOutcomes :
           InsightsSettles(r, outcome)
    \/ \E r \in inflight, outcome \in AnalyzeOutcomes :
           AnalyzeSettles(r, outcome)
    \/ JsonSettles
    \/ Unmount

Spec == Init /\ [][Next]_vars

\* The input field alone: keystrokes over the validator's texts.
NextValidate == \E value \in ValidatorInputs : handleUsernameChange(value)

SpecValidate == Init /\ [][NextValidate]_vars

\* The page with the /analyze responses the rendering tells apart.
NextRender ==
    \/ \E value \in RenderInputs : handleUsernameChange(value)
    \/ DebounceFire
    \/ RotationTick
    \/ handleSubmit
    \/ \E r \in inflight, outcome \in RenderInsightsOutcomes :
           InsightsSettles(r, outcome)
    \/ \E r \in inflight, outcome \in RenderOutcomes :
           AnalyzeSettles(r, outcome)
    \/ JsonSettles
    \/ Unmount

SpecRender == Init /\ [][NextRender]_vars

(***************************************************************************)
(* Properties                                                              *)
(***************************************************************************)
HasSpace(s) == \E i \in 1..Len(s) : s[i] = " "

\* 1 to 15 characters, all in [A-Za-z0-9_]
WellFormed(s) ==
    /\ Len(s) >= 1 /\ Len(s) <= 15
    /\ \A i \in 1..Len(s) : s[i] \in WordChar

SubmissionEnds == mounted /\ pc # "idle" /\ pc' = "idle"

\* what the fetch of endpoint ep of the latest submission settled with
Arrivals(ep, log) == {log[i].outcome : i \in {j \in 1..Len(log) : log[j].ep = ep}}

NonOk(a) == a.kind = "response" /\ (a.status < 200 \/ a.status > 299)

\* C2: when a submission ends whose /analyze call has returned a non-2xx
\* status, no report is displayed (results is null) and the error panel
\* shows "Error: <status>" with that status.
C2_NonOkStatusShown ==
    [][SubmissionEnds
       => \A a \in Arrivals("analyze", arrived') :
            NonOk(a) => /\ results' = JNull
                        /\ error' = "Error: " \o ToString(a.status)]_vars

\* results and error as the /analyze outcome alone decides them
AnalyzeVerdict(a) ==
    IF a.kind = "reject" THEN <<JNull, a.err.message>>
    ELSE IF NonOk(a) THEN <<JNull, "Error: " \o ToString(a.status)>>
    ELSE IF a.body = NotJson THEN <<JNull, SyntaxErrorJson.message>>
    ELSE <<a.body, "">>

\* C3: no outcome of the /insights call sets the error or keeps the result
\* of /analyze from being displayed: a submission ends only once /analyze
\* has settled, with the results and the error that /analyze alone decides,
\* and the settling of /insights leaves the error empty until then.
C3_FastPathNeverSurfaces ==
    /\ [][SubmissionEnds
          => /\ Arrivals("analyze", arrived') # {}
             /\ \A a \in Arrivals("analyze", arrived') :
                    <<results', error'>> = AnalyzeVerdict(a)]_vars
    /\ [](mounted /\ loading => error = "")

\* the /insights call threw, or its body holds no insights array
NoInsightsArray(o) ==
    \/ o.kind = "reject"
    \/ o.body.t # "object"
    \/ o.body.insights.t # "array"

\* C4: once the /insights call of a submission has thrown or returned a body
\* without an insights array, the insights held in state are exactly the
\* one-element fallback, a rotation timer runs against it while loading, and
\* every tick leaves the index 0.
C4_FallbackOnBadInsights ==
    /\ [](mounted /\ submissions > 0
          => \A o \in Arrivals("insights", arrived) :
               NoInsightsArray(o)
               => /\ insights = FallbackInsights
                  /\ loading => rotationTimers # <<>>
                  /\ currentInsightIndex = 0)

\* C5: when /analyze settles while /insights is still outstanding, the call
\* does not go on waiting for /insights, and no rotation timer is started
\* for that submission afterwards.
C5_SlowPathFirstEndsSubmission ==
    /\ [][\A r \in inflight, o \in AnalyzeOutcomes :
            (mounted /\ pc = "awaitInsights" /\ r.sub = submissions
             /\ AnalyzeSettles(r, o))
            => pc' # "awaitInsights"]_vars
    /\ [](mounted /\ Len(arrived) >= 1 /\ arrived[1].ep = "analyze"
          => rotationTimers = <<>>)

\* C6: whenever insights is non-empty the index lies in [0, insights.length);
\* a tick replaces the index i by (i + 1) mod insights.length; and with no
\* timer pending the index changes only by the reset of an accepted
\* submission, never by a tick.
C6_RotationIndex ==
    /\ [](Length(insights) > 0
          => currentInsightIndex >= 0
             /\ currentInsightIndex < Length(insights))
    /\ [][RotationTick
          => currentInsightIndex'
               = (currentInsightIndex + 1) % Length(insights)]_vars
    /\ [][rotationTimers = <<>> /\ currentInsightIndex' # currentInsightIndex
          => ~RotationTick /\ handleSubmit /\ currentInsightIndex' = 0]_vars

\* a tick has moved the index to the last element of a sequence of two or
\* more, with the timer still pending
C6_Witness ==
    /\ Length(insights) >= 2
    /\ currentInsightIndex = Length(insights) - 1
    /\ rotationTimers # <<>>

\* C7: at most one rotation timer is pending, and one is pending only while
\* the component is mounted, loading is true and insights is non-empty (so
\* none is started on an empty sequence, and none survives the end of the
\* submission or the unmount); the pending timer counts modulo the current
\* insights.length.
C7_RotationTimerOwned ==
    /\ Len(rotationTimers) <= 1
    /\ rotationTimers # <<>>
       => /\ mounted /\ loading /\ Length(insights) > 0
          /\ rotationTimers[1] = Length(insights)
    /\ (~mounted \/ ~loading) => rotationTimers = <<>>

\* a submission that showed insights while /analyze was outstanding has
\* ended with its report, and no timer is left
C7_Witness ==
    /\ mounted /\ ~loading /\ pc = "idle"
    /\ Len(arrived) = 2 /\ arrived[1].ep = "insights"
    /\ Length(insights) > 0
    /\ Truthy(results)
    /\ rotationTimers = <<>>

\* results and error as the pair of outcomes decides them, whatever the
\* order of arrival
PairVerdict(ins, ana) ==
    IF \E o \in ins : o.kind = "response" /\ o.body = JNull
    THEN {<<JNull, TypeErrorNull.message>>}
    ELSE {AnalyzeVerdict(a) : a \in ana}

\* C8: when a submission has ended, loading is false and results and error
\* are a function of the pair of outcomes of /insights and /analyze alone,
\* the same for both orders of arrival.
C8_OrderIndependent ==
    (mounted /\ pc = "idle" /\ submissions > 0)
    => /\ ~loading
       /\ Arrivals("insights", arrived) # {}
       /\ PairVerdict(Arrivals("insights", arrived),
                      Arrivals("analyze", arrived)) = {<<results, error>>}

\* a submission has ended with its report after /analyze settled first
C8_Witness ==
    /\ mounted /\ pc = "idle" /\ ~loading
    /\ Len(arrived) = 2
    /\ arrived[1].ep = "analyze" /\ arrived[2].ep = "insights"
    /\ Truthy(results) /\ error = ""

\* C9: an accepted submission issues both requests in the one step that
\* sets loading, before anything is awaited: afterwards both are
\* outstanding, with the same username, and the call awaits /insights with
\* /analyze pending; no other step issues a request.
C9_BothIssuedTogether ==
    /\ [][~loading /\ loading'
          => /\ Len(sent') = Len(sent) + 2
             /\ sent'[Len(sent) + 1].ep = "insights"
             /\ sent'[Len(sent) + 2].ep = "analyze"
             /\ sent'[Len(sent) + 1].username = sent'[Len(sent) + 2].username
             /\ {sent'[Len(sent) + 1], sent'[Len(sent) + 2]} \subseteq inflight'
             /\ pc' = "awaitInsights"]_vars
    /\ [][sent' # sent => ~loading /\ loading']_vars
    /\ [](pc = "awaitInsights"
          => \E r \in inflight : r.ep = "insights" /\ r.sub = submissions)

\* both requests of the running call are outstanding at the same time
C9_Witness ==
    /\ pc = "awaitInsights"
    /\ \E r1, r2 \in inflight :
         /\ r1.ep = "insights" /\ r2.ep = "analyze"
         /\ r1.sub = submissions /\ r2.sub = submissions
         /\ r1.username = r2.username

\* C10: loading becomes true only by an accepted submission; a submission
\* that ends shows exactly one of a report without an error or an error
\* without a report; and no request is issued but the two of an accepted
\* submission, and none is withdrawn before its response arrives.
C10_Lifecycle ==
    /\ [][~loading /\ loading'
          => handleSubmit /\ validateUsername(debouncedUsername) = ""]_vars
    /\ [][SubmissionEnds
          => /\ ~loading'
             /\ \/ (Truthy(results') /\ error' = "")
                \/ (~Truthy(results') /\ error' # "")]_vars
    /\ [][sent' # sent
          => handleSubmit /\ ~loading /\ Len(sent') = Len(sent) + 2]_vars
    /\ [][\A r \in inflight :
            r \notin inflight'
            => \/ \E o \in InsightsOutcomes : InsightsSettles(r, o)
               \/ \E o \in AnalyzeOutcomes : AnalyzeSettles(r, o)]_vars

\* the request r belongs to a submission before the latest one
Stale(r) == r.sub < submissions

\* C11 as stated: the response to a request of an earlier submission that
\* arrives after a later submission was accepted is written to the display:
\* results and error become what that response decides.
C11_StaleResponseOverwrites ==
    [][\A r \in inflight, o \in AnalyzeOutcomes :
         (mounted /\ Stale(r) /\ AnalyzeSettles(r, o))
         => <<results', error'>> = AnalyzeVerdict(o)]_vars

\* C11 amended: a submission is accepted only while no call is running
\* (loading false); it withdraws no outstanding request and adds two new
\* ones; the only request of an earlier submission that can still be
\* outstanding is /analyze; and when its response arrives nothing displayed
\* and nothing of the running call changes.
C11_StaleResponseDropped ==
    /\ [][~loading /\ loading'
          => /\ pc = "idle"
             /\ inflight \subseteq inflight'
             /\ Cardinality(inflight') = Cardinality(inflight) + 2]_vars
    /\ [][\A r \in inflight :
            (Stale(r) /\ r \notin inflight')
            => UNCHANGED <<loading, results, error, insights,
                           currentInsightIndex, pc, analyzePromise,
                           arrived>>]_vars
    /\ [](\A r \in inflight : Stale(r) => r.ep = "analyze")
    /\ [](loading /\ mounted => pc # "idle")

\* a later submission for another username is running while the /analyze
\* request of the earlier one is still outstanding
C11_Witness ==
    /\ mounted /\ loading /\ pc = "awaitAnalyze"
    /\ \E r, q \in inflight :
         /\ Stale(r) /\ r.ep = "analyze"
         /\ ~Stale(q) /\ q.ep = "analyze"
         /\ r.username # q.username

\* C12: whenever the text in the input field fails the validator, the submit
\* button is disabled, and no step issues a request or sets loading to true.
C12_InvalidInputBlocksSubmit ==
    /\ [](mounted /\ validateUsername(username) # ""
          => loading \/ Trim(debouncedUsername) = <<>> \/ inputError # "")
    /\ [][validateUsername(username) # ""
          => /\ sent' = sent
             /\ inflight' \subseteq inflight
             /\ ~(~loading /\ loading')]_vars

\* the text in the field fails the validator while the debounced value,
\* which handleSubmit would validate, passes it
C12_Witness ==
    /\ mounted /\ ~loading
    /\ validateUsername(username) # ""
    /\ validateUsername(debouncedUsername) = ""
    /\ inputError # ""

\* C13: when a submission is accepted, the username of the requests it
\* issues is the text in the input field at that moment.
C13_RequestCarriesInputText ==
    [][~loading /\ loading'
       => \A i \in (Len(sent) + 1)..Len(sent') :
            sent'[i].username = username]_vars

\* the requests of submission k, by endpoint
RequestsOf(k, ep) == {i \in 1..Len(sent) : sent[i].sub = k /\ sent[i].ep = ep}

\* C14: every accepted submission has issued exactly one /insights and one
\* /analyze request, both with the same username, also when the same
\* username was submitted before; and a request is issued only in the step
\* of an accepted submission, so none follows the end of a submission until
\* the next submit.
C14_OnePairPerSubmission ==
    /\ [](/\ Len(sent) = 2 * submissions
          /\ \A k \in 1..submissions :
               /\ Cardinality(RequestsOf(k, "insights")) = 1
               /\ Cardinality(RequestsOf(k, "analyze")) = 1
               /\ \A i \in RequestsOf(k, "insights"),
                     j \in RequestsOf(k, "analyze") :
                       sent[i].username = sent[j].username)
    /\ [][sent' # sent
          => /\ handleSubmit /\ ~loading /\ loading'
             /\ submissions' = submissions + 1]_vars

\* two submissions of the same username have each issued their pair
C14_Witness ==
    /\ submissions = 2 /\ Len(sent) = 4
    /\ sent[1].username = sent[3].username
    /\ pc = "idle" /\ mounted

\* C15: in every state after a keystroke, a text in the input field that
\* passes the validator has no input error shown with it.
C15_ValidInputNoError ==
    [](mounted /\ validateUsername(username) = "" => inputError = "")

AnalyzeFailed(a) ==
    \/ a.kind = "reject"
    \/ a.kind = "response" /\ ~NonOk(a) /\ a.body = NotJson

\* C18: a submission that ends after its /analyze call failed in transport,
\* or returned a 2xx status with a body that cannot be parsed, ends with a
\* non-empty error message, results null and loading false.
C18_SlowPathFailureShown ==
    [][SubmissionEnds
       => \A a \in Arrivals("analyze", arrived') :
            AnalyzeFailed(a)
            => error' # "" /\ results' = JNull /\ ~loading']_vars

\* a submission has ended in the error of a 2xx /analyze response whose
\* body could not be parsed
C18_Witness ==
    /\ mounted /\ pc = "idle" /\ ~loading
    /\ Response(200, NotJson) \in Arrivals("analyze", arrived)
    /\ error = SyntaxErrorJson.message
    /\ results = JNull

\* C16: after a keystroke the input error is empty exactly when the new text
\* has 1 to 15 characters, all of them in [A-Za-z0-9_]; every other text
\* (empty, longer than 15, or with a character outside the set) gets a
\* non-empty error.
C16_ValidExactlyWellFormed ==
    [][username' # username
       => /\ inputError' = validateUsername(username')
          /\ (inputError' = "" <=> WellFormed(username'))]_vars

\* a text of exactly 15 characters has been accepted
C16_Witness ==
    /\ Len(username) = 15
    /\ \A i \in 1..Len(username) : username[i] \in WordChar
    /\ inputError = ""

AllWhiteSpace(s) == \A i \in 1..Len(s) : s[i] \in WhiteSpace

\* the first rule that fails, in the order required, length, charset
Classify(s) ==
    IF AllWhiteSpace(s) THEN "Username is required"
    ELSE IF Len(s) > 15 THEN "Username must be 1-15 characters"
    ELSE IF \E i \in 1..Len(s) : s[i] \notin WordChar
         THEN "Username can only contain letters, numbers, and underscores"
    ELSE ""

\* C17: the error after a keystroke is that of the first failing rule: an
\* empty or white-space-only text of any length gets the required error;
\* otherwise a text longer than 15 characters gets the length error, also
\* when it contains a forbidden character; otherwise a text with a character
\* outside [A-Za-z0-9_] gets the charset error.
C17_FirstFailingRule ==
    [][username' # username => inputError' = Classify(username')]_vars

\* a text longer than 15 characters with a forbidden character in it has
\* been given the length error
C17_Witness ==
    /\ Len(username) > 15
    /\ \E i \in 1..Len(username) : username[i] = "-"
    /\ inputError = ErrLength

\* the four groups of the report added last
OptionalGroups ==
    {"diversity_metrics", "opposing_viewpoints", "temporal_analysis",
     "recommendation_explanations"}

Omitted(body) ==
    {g \in OptionalGroups : body.recommendations.report[g].t = "undefined"}

\* the sections of the older format
OldSections ==
    {"Analysis Process", "Signals Being Boosted", "Signals Being Reduced",
     "Feed Composition Changes", "Quality Metrics Applied", "Expected Outcome"}

\* response.json() of a 2xx /analyze response settles with a report
ReportArrives(body) ==
    /\ mounted /\ pc = "awaitJson" /\ pc' = "idle"
    /\ analyzePromise.outcome.body = body
    /\ body.t = "report"

\* C19: when the report of a 2xx /analyze response omits one or more of
\* diversity_metrics, opposing_viewpoints, temporal_analysis and
\* recommendation_explanations, the page stays mounted, the rendering of the
\* results does not throw, and the sections of the other groups are shown.
C19_PartialReportRendered ==
    [][\A body \in RenderBodies :
         ReportArrives(body) /\ Omitted(body) # {}
         => /\ mounted'
            /\ Render(results').t = "rendered"
            /\ OldSections \subseteq Render(results').sections]_vars

AlwaysSections ==
    {"Analysis Process", "Signals Being Boosted", "Signals Being Reduced",
     "Feed Composition Changes", "Quality Metrics Applied",
     "Feed Diversity Assessment", "Temporal Content Mix", "Expected Outcome"}

\* C20: when a fully populated report arrives, the page stays mounted and
\* the report sections rendered are the eight always-rendered ones, plus the
\* opposing-viewpoints section exactly when opposing_viewpoints.included is
\* true (whatever its topics and explanation), plus the
\* why-these-recommendations section exactly when
\* recommendation_explanations is non-empty.
C20_RenderedSections ==
    [][\A body \in RenderBodies :
         ReportArrives(body) /\ Omitted(body) = {}
         => LET rep == body.recommendations.report
            IN  /\ mounted' /\ results' = body
                /\ Render(results').t = "rendered"
                /\ Render(results').sections =
                     AlwaysSections
                     \cup (IF rep.opposing_viewpoints.included.v
                           THEN {"Opposing Viewpoints Strategy"} ELSE {})
                     \cup (IF rep.recommendation_explanations.items # <<>>
                           THEN {"Why These Recommendations?"} ELSE {})]_vars

\* a report that excludes opposing viewpoints while listing topics for them,
\* and has no recommendation explanations, is shown with the eight sections
C20_Witness ==
    /\ mounted /\ pc = "idle" /\ results.t = "report"
    /\ ~results.recommendations.report.opposing_viewpoints.included.v
    /\ results.recommendations.report.opposing_viewpoints
              .topics_with_diversity.items # <<>>
    /\ results.recommendations.report.recommendation_explanations.items = <<>>
    /\ Cardinality(Render(results).sections) = 8

\* a report is displayed
Displayed ==
    mounted /\ results.t = "report" /\ Render(results).t = "rendered"

C22_RiskTiers ==
    /\ [](Displayed
          => LET label == results.recommendations.report.diversity_metrics
                                 .filter_bubble_risk.items
                 color == Render(results).risk
             IN  /\ label = <<"L", "o", "w">> => color = "bg-green-600"
                 /\ label = <<"M", "o", "d", "e", "r", "a", "t", "e">>
                        => color = "bg-yellow-600"
                 /\ label \notin {<<"L", "o", "w">>,
                                  <<"M", "o", "d", "e", "r", "a", "t", "e">>}
                        => color = "bg-red-600")
    /\ [][\A body \in PresentationBodies :
            ReportArrives(body) => mounted' /\ Displayed']_vars

\* a report with a label in another case than the enum's is displayed with
\* the warning color
C22_Witness ==
    /\ Displayed
    /\ results.recommendations.report.diversity_metrics.filter_bubble_risk
              .items = <<"l", "o", "w">>
    /\ Render(results).risk = "bg-red-600"

\* C23: the opacity of each topic badge of a displayed report is
\* 0.4 + 0.6 * weight: 0.4 at weight 0, 1.0 at weight 1, between the two for
\* every weight in [0, 1], and larger for the larger of two weights.
C23_BadgeOpacity ==
    [](Displayed
       => LET topics == results.topics.items
              badges == Render(results).badges
          IN  /\ Len(badges) = Len(topics)
              /\ \A i \in 1..Len(topics) :
                   LET w == topics[i].weight.v
                   IN  /\ 1000 * badges[i].v = 400000 + 600 * w
                       /\ w = 0 => badges[i].v = 400
                       /\ w = 1000 => badges[i].v = 1000
                       /\ (0 <= w /\ w <= 1000)
                              => 400 <= badges[i].v /\ badges[i].v <= 1000
              /\ \A i, j \in 1..Len(topics) :
                   topics[i].weight.v < topics[j].weight.v
                       => badges[i].v < badges[j].v)

\* topics of weight 0 and of weight 1 are displayed
C23_Witness ==
    /\ Displayed
    /\ Len(results.topics.items) = 2
    /\ results.topics.items[1].weight.v = 0
    /\ results.topics.items[2].weight.v = 1000
    /\ Render(results).badges[1].v = 400
    /\ Render(results).badges[2].v = 1000

\* C24: in every state the report and the error panel are not both
\* displayed, and while loading neither is; and the step of an accepted
\* submission leaves results null, error empty, insights empty and the
\* insight index 0, with no response of the submission processed yet.
C24_ResultsErrorExclusive ==
    /\ [](~(results # JNull /\ error # ""))
    /\ [](loading => results = JNull /\ error = "")
    /\ [][~loading /\ loading'
          => /\ results' = JNull /\ error' = ""
             /\ insights' = [t |-> "array", items |-> <<>>]
             /\ currentInsightIndex' = 0
             /\ arrived' = <<>>
             /\ pc' = "awaitInsights"]_vars

\* a second submission has been accepted and has reset the display
C24_Witness ==
    /\ mounted /\ loading /\ submissions = 2
    /\ pc = "awaitInsights" /\ arrived = <<>>
    /\ \E i \in 1..Len(sent) : sent[i].sub = 1
    /\ results = JNull /\ error = ""

Outstanding(ep) == {r \in inflight : r.ep = ep}

\* C25: while loading is true no step starts a submission or changes the
\* input text, and in every state at most one /insights request and at most
\* one /analyze request are outstanding.
C25_OneSubmissionAtATime ==
    /\ [][loading => /\ username' = username
                     /\ sent' = sent
                     /\ submissions' = submissions]_vars
    /\ [](/\ Cardinality(Outstanding("insights")) <= 1
          /\ Cardinality(Outstanding("analyze")) <= 1)

\* C26: the step in which a submission leaves the in-flight state (loading
\* becomes false) leaves a report or an error shown.
C26_EndsInReportOrError ==
    [][mounted /\ loading /\ ~loading'
       => results' # JNull \/ error' # ""]_vars

\* C27: a submit attempt that fails validation (the one step that changes
\* the input error without changing the input text) sets the input error to
\* the validator's message and changes nothing else: report, error panel,
\* insights, insight index and loading flag stay as they were, and no
\* request is issued.
C27_FailedSubmitFrame ==
    [][username' = username /\ inputError' # inputError
       => /\ inputError' = validateUsername(debouncedUsername)
          /\ inputError' # ""
          /\ UNCHANGED <<results, error, insights, currentInsightIndex,
                         loading, sent, inflight, submissions, pc,
                         debouncedUsername, rotationTimers>>]_vars

\* a submit attempt has failed validation with a report on display
C27_Witness ==
    /\ mounted /\ ~loading
    /\ validateUsername(username) = "" /\ inputError # ""
    /\ results.t = "report"

\* C28: a keystroke sets the input text, sets the input error to the
\* validator's result for the new text, and leaves one pending debounce
\* timer, that of the new text; report, error panel, insights, insight
\* index, loading flag and debounced username stay as they were.
C28_KeystrokeFrame ==
    [][username' # username
       => /\ inputError' = validateUsername(username')
          /\ debounceTimers' = <<username'>>
          /\ UNCHANGED <<results, error, insights, currentInsightIndex,
                         loading, debouncedUsername, sent, inflight,
                         submissions, pc, rotationTimers>>]_vars

\* the error panel is on display and the text, typed after the submission
\* ended, fails the validator
C28_Witness ==
    /\ mounted /\ ~loading /\ error # ""
    /\ validateUsername(username) # "" /\ inputError # ""
    /\ debounceTimers = <<username>>

\* C29: the debounced username changes only in a step in which the pending
\* debounce timer fires, and becomes the text then in the input field; a
\* keystroke leaves exactly one timer pending, that of the new text, so at
\* most one timer is ever pending; and when no timer is pending on the
\* mounted page, the debounced username is the input text.
C29_Debounce ==
    /\ [][debouncedUsername' # debouncedUsername
          => /\ debounceTimers # <<>> /\ debounceTimers' = <<>>
             /\ username' = username
             /\ debouncedUsername' = username]_vars
    /\ [][username' # username => debounceTimers' = <<username'>>]_vars
    /\ [](Len(debounceTimers) <= 1)
    /\ [](mounted /\ debounceTimers = <<>> => debouncedUsername = username)

\* the timer of the second of two texts has fired
C29_Witness ==
    /\ mounted /\ debounceTimers = <<>>
    /\ debouncedUsername = username
    /\ username = <<"e", "l", "o", "n", "m", "u", "s", "k">>
    /\ \E i \in 1..Len(sent) : sent[i].username = <<"a", "b">>

====
